---- MODULE Spec2Model ----
(***************************************************************************)
(* A model of python/ray/train/xgboost/xgboost_checkpoint.py: the two      *)
(* checkpoint adapters XGBoostCheckpoint (current format) and              *)
(* LegacyXGBoostCheckpoint (legacy format), their from_model and get_model *)
(* operations, the filesystem they write to, and the collaborators they    *)
(* call (tempfile, the xgboost codec, the Checkpoint store, the            *)
(* preprocessor store).                                                    *)
(***************************************************************************)
EXTENDS Integers, Sequences, FiniteSets, TLC

(***************************************************************************)
(* Bounds of the model.                                                    *)
(***************************************************************************)
NumModels == 2
NumPreprocessors == 1
MaxDirs == 2
MaxCkpts == 1

(***************************************************************************)
(* Values.                                                                 *)
(***************************************************************************)
\* Trained boosters handed to from_model.
Models == 1 .. NumModels
\* xgboost.Booster(): the freshly constructed, empty booster of get_model.
EmptyBooster == 0
\* preprocessor=None, the default of from_model.
None == 0
\* Fitted preprocessors handed to from_model.
Preprocessors == 1 .. NumPreprocessors
\* `if preprocessor:`; a Preprocessor instance is truthy, None is not.
Truthy(preprocessor) == preprocessor # None

XGBoostCheckpoint == "XGBoostCheckpoint"
LegacyXGBoostCheckpoint == "LegacyXGBoostCheckpoint"
Classes == {XGBoostCheckpoint, LegacyXGBoostCheckpoint}

\* Mutation of MODEL_FILENAME: the format-local name replaced by the shared key.
MODEL_FILENAME_shared == "model"
\* XGBoostCheckpoint.MODEL_FILENAME
MODEL_FILENAME == "model.pkl"
\* ray.air.constants.MODEL_KEY
MODEL_KEY == "model"
\* The file save_preprocessor_to_dir writes.
PREPROCESSOR_FILE == "preprocessor.pkl"
FileNames == {MODEL_FILENAME, MODEL_KEY, PREPROCESSOR_FILE}

(***************************************************************************)
(* Bytes.  A file's content is a tagged payload: the codec and the pickler *)
(* each write their own format and accept only that format back.           *)
(***************************************************************************)
NoFile == [fmt |-> "absent", payload |-> 0]
Junk == [fmt |-> "junk", payload |-> 0]
\* Booster.save_model: the native serialization of a booster.
Serialize(booster) == [fmt |-> "xgb", payload |-> booster]
\* Booster.load_model accepts the bytes.
IsModelBytes(bytes) == bytes.fmt = "xgb"
\* Booster.load_model: the booster the bytes describe.
Deserialize(bytes) == bytes.payload
\* The pickled state of a fitted preprocessor.
Pickle(preprocessor) == [fmt |-> "pkl", payload |-> preprocessor]
Unpickle(bytes) == IF bytes.fmt = "pkl" THEN bytes.payload ELSE None

(***************************************************************************)
(* The filesystem: directory names 1 .. MaxDirs, each absent or holding    *)
(* files.  tempfile never hands out a name twice: from_model's scratch     *)
(* directories are named 1, 2, ... in the order they are made (nextDir).   *)
(* The calls are synchronous, so at most one temporary directory of        *)
(* as_directory exists at a time; it is named ViewDir.                     *)
(***************************************************************************)
ScratchDirs == 1 .. MaxDirs
ViewDir == MaxDirs + 1
Dirs == ScratchDirs \cup {ViewDir}
NoPath == 0
EmptyFiles == [f \in FileNames |-> NoFile]
NoDir == [exists |-> FALSE, files |-> EmptyFiles]
EmptyDir == [exists |-> TRUE, files |-> EmptyFiles]
\* The names of the files a directory holds.
Listing(dir) == {f \in FileNames : dir.files[f] # NoFile}
\* os.mkdir of a new directory.
MakeDir(fsx, d) == [fsx EXCEPT ![d] = EmptyDir]
\* shutil.rmtree.
RemoveTree(fsx, d) == [fsx EXCEPT ![d] = NoDir]
\* Writing a file into an existing directory.
WriteFile(fsx, d, f, bytes) == [fsx EXCEPT ![d].files[f] = bytes]

(***************************************************************************)
(* Errors, by the collaborator that raises them.                           *)
(***************************************************************************)
NoError == "NoError"
NotFoundError == "NotFoundError"
CodecError == "CodecError"
FilesystemError == "FilesystemError"
CheckpointStoreError == "CheckpointStoreError"
PreprocessorStoreError == "PreprocessorStoreError"
ErrorOf(call) ==
    CASE call = "mkdtemp" -> FilesystemError
      [] call = "save_model" -> CodecError
      [] call = "save_preprocessor_to_dir" -> PreprocessorStoreError
      [] OTHER -> CheckpointStoreError

(***************************************************************************)
(* Checkpoints (the Checkpoint store).  A checkpoint references a          *)
(* directory ("dir") or holds a dictionary of bytes ("dict"), and carries  *)
(* metadata.                                                               *)
(***************************************************************************)
NoDict == {}
NoCheckpoint ==
    [cls |-> "", kind |-> "none", path |-> NoPath, data |-> NoDict, meta |-> NoFile]
\* cls.from_directory(path): a checkpoint referencing the directory.
from_directory(cls, path) ==
    [cls |-> cls, kind |-> "dir", path |-> path, data |-> NoDict, meta |-> NoFile]
\* checkpoint.to_dict(): the directory's files packed as name/bytes pairs.
to_dict(checkpoint, fsx) ==
    {<<f, fsx[checkpoint.path].files[f]>> : f \in Listing(fsx[checkpoint.path])}
\* cls.from_dict(d): a checkpoint holding the dictionary.
from_dict(cls, ckpt_dict) ==
    [cls |-> cls, kind |-> "dict", path |-> NoPath, data |-> ckpt_dict, meta |-> NoFile]
\* The files a dictionary unpacks to.
Unpack(ckpt_dict) ==
    [f \in FileNames |->
        IF \E e \in ckpt_dict : e[1] = f
        THEN (CHOOSE e \in ckpt_dict : e[1] = f)[2]
        ELSE NoFile]
\* checkpoint.set_preprocessor(p): the preprocessor attached as metadata.
set_preprocessor(checkpoint, preprocessor) ==
    [checkpoint EXCEPT !.meta = Pickle(preprocessor)]
\* save_preprocessor_to_dir(p, dir): the preprocessor written as a file.
save_preprocessor_to_dir(fsx, preprocessor, d) ==
    WriteFile(fsx, d, PREPROCESSOR_FILE, Pickle(preprocessor))
\* The preprocessor a checkpoint restores: from its metadata, else from its
\* preprocessor file.
get_preprocessor(checkpoint, fsx) ==
    IF checkpoint.meta # NoFile THEN Unpickle(checkpoint.meta)
    ELSE IF checkpoint.kind = "dict"
         THEN Unpickle(Unpack(checkpoint.data)[PREPROCESSOR_FILE])
         ELSE IF checkpoint.kind = "dir" /\ fsx[checkpoint.path].exists
              THEN Unpickle(fsx[checkpoint.path].files[PREPROCESSOR_FILE])
              ELSE None

(***************************************************************************)
(* The state.                                                              *)
(***************************************************************************)
VARIABLES
    fs,        \* the filesystem: Dirs -> directory
    nextDir,   \* the next name tempfile hands out
    ckpts,     \* the checkpoints from_model has returned, in order
    made,      \* per checkpoint: the arguments and scratch directory of its from_model
    scratch,   \* the scratch directories from_model has created, in order
    scoped,    \* the scoped directories get_model holds acquired
    tampered,  \* the directories changed from outside the adapter
    last       \* the last call and its outcome

vars == <<fs, nextDir, ckpts, made, scratch, scoped, tampered, last>>

Idle ==
    [op |-> "none", cls |-> "", fail |-> "none", status |-> "none", error |-> NoError,
     calls |-> <<>>, ckpt |-> 0, returned |-> FALSE, value |-> EmptyBooster,
     tmpdir |-> NoPath]

Init ==
    /\ fs = [d \in Dirs |-> NoDir]
    /\ nextDir = 1
    /\ ckpts = <<>>
    /\ made = <<>>
    /\ scratch = <<>>
    /\ scoped = {}
    /\ tampered = {}
    /\ last = Idle

(***************************************************************************)
(* Outcomes of a call: what it returns or raises, the collaborator calls   *)
(* it made, and the filesystem it leaves.                                  *)
(***************************************************************************)
Raise(calls, tmpdir, fsx, nd) ==
    [status |-> "err", error |-> ErrorOf(calls[Len(calls)]), calls |-> calls,
     checkpoint |-> NoCheckpoint, tmpdir |-> tmpdir, fs |-> fsx, nextDir |-> nd]
Return(calls, checkpoint, tmpdir, fsx, nd) ==
    [status |-> "ok", error |-> NoError, calls |-> calls,
     checkpoint |-> checkpoint, tmpdir |-> tmpdir, fs |-> fsx, nextDir |-> nd]

(***************************************************************************)
(* XGBoostCheckpoint.from_model.  fail names the collaborator call that    *)
(* raises, if it is made.                                                  *)
(***************************************************************************)
XGBFailPoints == {"none", "mkdtemp", "save_model", "from_directory", "set_preprocessor"}

\* Mutation of XGB_tmpdir: one scratch directory shared by every call.
XGB_tmpdir_shared == IF scratch = <<>> THEN nextDir ELSE scratch[1]
\* tmpdir = tempfile.mkdtemp(): a directory no earlier call was given.
XGB_tmpdir == nextDir

\* Mutation of XGB_attach: the preprocessor is dropped.
XGB_attach_dropped(checkpoint, preprocessor, fail, calls, tmpdir, fsx, nd) ==
    Return(calls, checkpoint, tmpdir, fsx, nd)
\* Mutation of XGB_attach: set_preprocessor is called without the guard.
XGB_attach_unguarded(checkpoint, preprocessor, fail, calls, tmpdir, fsx, nd) ==
    Return(Append(calls, "set_preprocessor"),
           set_preprocessor(checkpoint, preprocessor), tmpdir, fsx, nd)
\* if preprocessor: checkpoint.set_preprocessor(preprocessor); return checkpoint
XGB_attach(checkpoint, preprocessor, fail, calls, tmpdir, fsx, nd) ==
    IF Truthy(preprocessor)
    THEN IF fail = "set_preprocessor"
         THEN Raise(Append(calls, "set_preprocessor"), tmpdir, fsx, nd)
         ELSE Return(Append(calls, "set_preprocessor"),
                     set_preprocessor(checkpoint, preprocessor), tmpdir, fsx, nd)
    ELSE Return(calls, checkpoint, tmpdir, fsx, nd)

\* Mutation of XGB_save: a failed save_model is swallowed and the call goes on
\* with the empty scratch directory.
XGB_save_fallback(booster, preprocessor, fail, tmpdir, fsx, nd) ==
    LET calls == <<"mkdtemp", "save_model">>
        fs2 == IF fail = "save_model" THEN fsx
               ELSE WriteFile(fsx, tmpdir, MODEL_FILENAME, Serialize(booster))
    IN  IF fail = "from_directory"
        THEN Raise(Append(calls, "from_directory"), tmpdir, fs2, nd)
        ELSE XGB_attach(from_directory(XGBoostCheckpoint, tmpdir), preprocessor, fail,
                        Append(calls, "from_directory"), tmpdir, fs2, nd)
\* booster.save_model(os.path.join(tmpdir, cls.MODEL_FILENAME));
\* checkpoint = cls.from_directory(tmpdir); ...
XGB_save(booster, preprocessor, fail, tmpdir, fsx, nd) ==
    LET calls == <<"mkdtemp", "save_model">>
    IN  IF fail = "save_model"
        THEN Raise(calls, tmpdir, fsx, nd)
        ELSE LET fs2 == WriteFile(fsx, tmpdir, MODEL_FILENAME, Serialize(booster))
             IN  IF fail = "from_directory"
                 THEN Raise(Append(calls, "from_directory"), tmpdir, fs2, nd)
                 ELSE XGB_attach(from_directory(XGBoostCheckpoint, tmpdir),
                                 preprocessor, fail,
                                 Append(calls, "from_directory"), tmpdir, fs2, nd)

XGB_from_model(booster, preprocessor, fail) ==
    IF fail = "mkdtemp"
    THEN Raise(<<"mkdtemp">>, NoPath, fs, nextDir)
    ELSE LET tmpdir == XGB_tmpdir
         IN  XGB_save(booster, preprocessor, fail, tmpdir,
                      MakeDir(fs, tmpdir), nextDir + 1)

(***************************************************************************)
(* LegacyXGBoostCheckpoint.from_model.                                     *)
(***************************************************************************)
LegacyFailPoints ==
    {"none", "mkdtemp", "save_model", "save_preprocessor_to_dir", "from_directory",
     "to_dict", "from_dict"}

\* The body of the with block: save_model, save_preprocessor_to_dir,
\* from_directory, to_dict.  The outcome's checkpoint is the directory
\* checkpoint, and its dictionary is in dict.
Legacy_body(booster, preprocessor, fail, tmpdirname, fsx) ==
    LET calls1 == <<"mkdtemp", "save_model">>
        out(status, calls, fsy, d) ==
            [status |-> status, calls |-> calls, fs |-> fsy, dict |-> d]
    IN  IF fail = "save_model"
        THEN out("err", calls1, fsx, NoDict)
        ELSE
        LET fs2 == WriteFile(fsx, tmpdirname, MODEL_KEY, Serialize(booster))
            saves == Truthy(preprocessor)
            calls2 == IF saves THEN Append(calls1, "save_preprocessor_to_dir")
                      ELSE calls1
        IN  IF saves /\ fail = "save_preprocessor_to_dir"
            THEN out("err", calls2, fs2, NoDict)
            ELSE
            LET fs3 == IF saves
                       THEN save_preprocessor_to_dir(fs2, preprocessor, tmpdirname)
                       ELSE fs2
                calls3 == Append(calls2, "from_directory")
            IN  IF fail = "from_directory"
                THEN out("err", calls3, fs3, NoDict)
                ELSE
                LET checkpoint == from_directory(LegacyXGBoostCheckpoint, tmpdirname)
                    calls4 == Append(calls3, "to_dict")
                IN  IF fail = "to_dict"
                    THEN out("err", calls4, fs3, NoDict)
                    ELSE out("ok", calls4, fs3, to_dict(checkpoint, fs3))

\* Mutation of Legacy_exit: the scratch directory is removed only when the
\* block completes.
Legacy_exit_on_success(body, tmpdirname) ==
    IF body.status = "ok" THEN RemoveTree(body.fs, tmpdirname) ELSE body.fs
\* Mutation of Legacy_exit: the scratch directory is kept.
Legacy_exit_keep(body, tmpdirname) == body.fs
\* Leaving `with tempfile.TemporaryDirectory() as tmpdirname:`, normally or by
\* an exception: the directory is removed.
Legacy_exit(body, tmpdirname) == RemoveTree(body.fs, tmpdirname)

Legacy_from_model(booster, preprocessor, fail) ==
    IF fail = "mkdtemp"
    THEN Raise(<<"mkdtemp">>, NoPath, fs, nextDir)
    ELSE LET tmpdirname == nextDir
             body == Legacy_body(booster, preprocessor, fail, tmpdirname,
                                 MakeDir(fs, tmpdirname))
             fs4 == Legacy_exit(body, tmpdirname)
         IN  IF body.status = "err"
             THEN Raise(body.calls, tmpdirname, fs4, nextDir + 1)
             ELSE IF fail = "from_dict"
                  THEN Raise(Append(body.calls, "from_dict"), tmpdirname, fs4,
                             nextDir + 1)
                  ELSE Return(Append(body.calls, "from_dict"),
                              from_dict(LegacyXGBoostCheckpoint, body.dict),
                              tmpdirname, fs4, nextDir + 1)

\* The from_model action of either adapter.
FromModel(cls, booster, preprocessor, fail) ==
    /\ nextDir <= MaxDirs
    /\ LET r == IF cls = XGBoostCheckpoint
                THEN XGB_from_model(booster, preprocessor, fail)
                ELSE Legacy_from_model(booster, preprocessor, fail)
           ok == r.status = "ok"
       IN  /\ fs' = r.fs
           /\ nextDir' = r.nextDir
           /\ ckpts' = IF ok THEN Append(ckpts, r.checkpoint) ELSE ckpts
           /\ made' = IF ok
                      THEN Append(made, [booster |-> booster,
                                         preprocessor |-> preprocessor,
                                         tmpdir |-> r.tmpdir])
                      ELSE made
           /\ scratch' = IF r.tmpdir = NoPath THEN scratch
                         ELSE Append(scratch, r.tmpdir)
           /\ last' = [op |-> "from_model", cls |-> cls, fail |-> fail,
                       status |-> r.status, error |-> r.error, calls |-> r.calls,
                       ckpt |-> IF ok THEN Len(ckpts) + 1 ELSE 0,
                       returned |-> r.checkpoint # NoCheckpoint,
                       value |-> EmptyBooster, tmpdir |-> r.tmpdir]
           /\ UNCHANGED <<scoped, tampered>>

XGBFromModel ==
    \E booster \in Models, preprocessor \in {None} \cup Preprocessors,
       fail \in XGBFailPoints :
        /\ Len(ckpts) < MaxCkpts
        /\ FromModel(XGBoostCheckpoint, booster, preprocessor, fail)

LegacyFromModel ==
    \E booster \in Models, preprocessor \in {None} \cup Preprocessors,
       fail \in LegacyFailPoints :
        /\ Len(ckpts) < MaxCkpts
        /\ FromModel(LegacyXGBoostCheckpoint, booster, preprocessor, fail)

\* from_model(booster): the default preprocessor, no collaborator failing.
XGBSave ==
    \E booster \in Models : FromModel(XGBoostCheckpoint, booster, None, "none")

LegacySave ==
    \E booster \in Models : FromModel(LegacyXGBoostCheckpoint, booster, None, "none")

(***************************************************************************)
(* get_model of either adapter: filename is MODEL_FILENAME in              *)
(* XGBoostCheckpoint and MODEL_KEY in LegacyXGBoostCheckpoint.             *)
(***************************************************************************)
GetFailPoints == {"none", "as_directory"}

\* Entering `with self.as_directory() as checkpoint_path:`.  A directory
\* checkpoint is viewed in place; a dictionary checkpoint is unpacked into a
\* temporary directory.
as_directory_enter(checkpoint, fsx) ==
    IF checkpoint.kind = "dir"
    THEN [path |-> checkpoint.path, temp |-> FALSE, fs |-> fsx]
    ELSE [path |-> ViewDir, temp |-> TRUE,
          fs |-> [fsx EXCEPT ![ViewDir] = [exists |-> TRUE,
                                           files |-> Unpack(checkpoint.data)]]]
\* Releasing the scoped directory: a temporary one is deleted.
as_directory_exit(view, fsx) ==
    IF view.temp THEN RemoveTree(fsx, view.path) ELSE fsx

\* booster.load_model(path): the booster after the call, or the error raised.
load_model(booster, fsx, d, filename) ==
    IF ~fsx[d].exists \/ fsx[d].files[filename] = NoFile
    THEN [status |-> "err", error |-> NotFoundError, booster |-> booster]
    ELSE IF ~IsModelBytes(fsx[d].files[filename])
         THEN [status |-> "err", error |-> CodecError, booster |-> booster]
         ELSE [status |-> "ok", error |-> NoError,
               booster |-> Deserialize(fsx[d].files[filename])]

\* Mutation of WithExit: the scoped directory is released only when the block
\* returns.
WithExit_on_return(view, loaded, acquired) ==
    IF loaded.status = "ok"
    THEN [fs |-> as_directory_exit(view, view.fs), scoped |-> acquired \ {view.path}]
    ELSE [fs |-> view.fs, scoped |-> acquired]
\* Leaving the with block of get_model, by return or by an exception: the
\* scoped directory is released.
WithExit(view, loaded, acquired) ==
    [fs |-> as_directory_exit(view, view.fs), scoped |-> acquired \ {view.path}]

\* Mutation of Outcome: a failed load is swallowed and the booster is returned
\* as it is.
Outcome_swallowed(loaded) ==
    [status |-> "ok", error |-> NoError, returned |-> TRUE, value |-> loaded.booster]
\* return booster, reached only when load_model did not raise.
Outcome(loaded) ==
    IF loaded.status = "ok"
    THEN [status |-> "ok", error |-> NoError, returned |-> TRUE,
          value |-> loaded.booster]
    ELSE [status |-> "err", error |-> loaded.error, returned |-> FALSE,
          value |-> EmptyBooster]

\* Mutation of ModelPath: both adapters read the shared key.
ModelPath_shared(cls) == MODEL_KEY
\* The name get_model reads: self.MODEL_FILENAME, MODEL_KEY.
ModelPath(cls) == IF cls = XGBoostCheckpoint THEN MODEL_FILENAME ELSE MODEL_KEY

get_model(cls, checkpoint, fail) ==
    IF fail = "as_directory"
    THEN [status |-> "err", error |-> ErrorOf("as_directory"), returned |-> FALSE,
          value |-> EmptyBooster, calls |-> <<"as_directory">>,
          fs |-> fs, scoped |-> scoped, view |-> NoPath]
    ELSE LET view == as_directory_enter(checkpoint, fs)
             acquired == scoped \cup {view.path}
             booster == EmptyBooster
             loaded == load_model(booster, view.fs, view.path, ModelPath(cls))
             exit == WithExit(view, loaded, acquired)
             out == Outcome(loaded)
         IN  [status |-> out.status, error |-> out.error, returned |-> out.returned,
              value |-> out.value, calls |-> <<"as_directory", "load_model">>,
              fs |-> exit.fs, scoped |-> exit.scoped,
              view |-> view.path]

\* The get_model action: adapter cls reads checkpoint i.
GetModel(cls, i, fail) ==
    /\ LET r == get_model(cls, ckpts[i], fail)
       IN  /\ fs' = r.fs
           /\ scoped' = r.scoped
           /\ last' = [op |-> "get_model", cls |-> cls, fail |-> fail,
                       status |-> r.status, error |-> r.error, calls |-> r.calls,
                       ckpt |-> i, returned |-> r.returned, value |-> r.value,
                       tmpdir |-> r.view]
           /\ UNCHANGED <<nextDir, ckpts, made, scratch, tampered>>

XGBGetModel ==
    \E i \in 1 .. Len(ckpts), fail \in GetFailPoints :
        GetModel(XGBoostCheckpoint, i, fail)

LegacyGetModel ==
    \E i \in 1 .. Len(ckpts), fail \in GetFailPoints :
        GetModel(LegacyXGBoostCheckpoint, i, fail)

(***************************************************************************)
(* The world outside the adapter: the backing directory of a checkpoint is *)
(* deleted, or one of its model files is removed or overwritten.           *)
(***************************************************************************)
ModelNames == {MODEL_FILENAME, MODEL_KEY}
\* The directories that checkpoints reference.
Backing == {ckpts[i].path : i \in {j \in 1 .. Len(ckpts) : ckpts[j].kind = "dir"}}

DeleteDir ==
    \E d \in Backing :
        /\ fs[d].exists
        /\ fs' = RemoveTree(fs, d)
        /\ tampered' = tampered \cup {d}
        /\ last' = Idle
        /\ UNCHANGED <<nextDir, ckpts, made, scratch, scoped>>

RemoveFile ==
    \E d \in Backing, f \in ModelNames :
        /\ fs[d].exists
        /\ fs[d].files[f] # NoFile
        /\ fs' = WriteFile(fs, d, f, NoFile)
        /\ tampered' = tampered \cup {d}
        /\ last' = Idle
        /\ UNCHANGED <<nextDir, ckpts, made, scratch, scoped>>

CorruptFile ==
    \E d \in Backing, f \in ModelNames :
        /\ fs[d].exists
        /\ fs[d].files[f] \notin {NoFile, Junk}
        /\ fs' = WriteFile(fs, d, f, Junk)
        /\ tampered' = tampered \cup {d}
        /\ last' = Idle
        /\ UNCHANGED <<nextDir, ckpts, made, scratch, scoped>>

(***************************************************************************)
(* Spec: the calls of both adapters, with every argument and every failing *)
(* collaborator, keeping at most MaxCkpts checkpoints.                     *)
(***************************************************************************)
Next ==
    \/ XGBFromModel
    \/ LegacyFromModel
    \/ XGBGetModel
    \/ LegacyGetModel

Spec == Init /\ [][Next]_vars

(***************************************************************************)
(* SpecShared: successful saves, as many as there are scratch names, with  *)
(* the backing directories changed from outside between the calls.         *)
(***************************************************************************)
NextShared ==
    \/ XGBSave
    \/ LegacySave
    \/ XGBGetModel
    \/ LegacyGetModel
    \/ DeleteDir
    \/ RemoveFile
    \/ CorruptFile

SpecShared == Init /\ [][NextShared]_vars

(***************************************************************************)
(* Vocabulary of the properties.                                           *)
(***************************************************************************)
Saved == last.op = "from_model" /\ last.status = "ok"
\* get_model ran to its load_model call.
Read == last.op = "get_model" /\ last.fail = "none"
\* The files get_model finds in the scoped directory of a checkpoint.
ViewFiles(checkpoint) ==
    IF checkpoint.kind = "dict" THEN Unpack(checkpoint.data)
    ELSE IF fs[checkpoint.path].exists THEN fs[checkpoint.path].files
         ELSE EmptyFiles
\* The names of those files.
ViewListing(checkpoint) == {f \in FileNames : ViewFiles(checkpoint)[f] # NoFile}
\* No element of a sequence occurs twice.
Distinct(seq) == \A i, j \in 1 .. Len(seq) : i # j => seq[i] # seq[j]
\* Position of a call in the calls of the last operation (0: not made).
Called(call) == \E k \in 1 .. Len(last.calls) : last.calls[k] = call
Before(c1, c2) ==
    \E k1, k2 \in 1 .. Len(last.calls) :
        k1 < k2 /\ last.calls[k1] = c1 /\ last.calls[k2] = c2

(***************************************************************************)
(* C1.  Round trip: when an adapter's get_model reads a checkpoint that    *)
(* the same adapter's from_model made from booster M, with or without a    *)
(* preprocessor, it returns M.                                             *)
(***************************************************************************)
C1_RoundTrip ==
    (Read /\ last.cls = ckpts[last.ckpt].cls)
        => /\ last.status = "ok"
           /\ last.returned
           /\ last.value = made[last.ckpt].booster

C1_Witness ==
    /\ Read
    /\ last.cls = LegacyXGBoostCheckpoint
    /\ ckpts[last.ckpt].cls = LegacyXGBoostCheckpoint
    /\ made[last.ckpt].preprocessor # None
    /\ last.returned
    /\ last.value = 2

(***************************************************************************)
(* C2.  Format isolation: when one adapter's get_model reads a checkpoint  *)
(* made by the other adapter's from_model, it fails with a not-found error *)
(* and returns no model.                                                   *)
(***************************************************************************)
C2_FormatIsolation ==
    (Read /\ last.cls # ckpts[last.ckpt].cls)
        => /\ last.status = "err"
           /\ last.error = NotFoundError
           /\ ~last.returned

C2_Witness ==
    /\ Read
    /\ last.cls = LegacyXGBoostCheckpoint
    /\ ckpts[last.ckpt].cls = XGBoostCheckpoint
    /\ ViewListing(ckpts[last.ckpt]) = {MODEL_FILENAME}
    /\ last.error = NotFoundError

(***************************************************************************)
(* C3.  Scoped release: after every get_model call, whether it returned a  *)
(* model or failed on a missing file or on rejected bytes, no scoped       *)
(* directory is held and no temporary view directory is left.              *)
(***************************************************************************)
C3_ScopedReleased ==
    /\ scoped = {}
    /\ ~fs[ViewDir].exists

C3_Witness ==
    /\ Read
    /\ last.status = "err"
    /\ last.error = CodecError
    /\ scoped = {}

(***************************************************************************)
(* C4.  Independent saves: no two from_model calls use the same scratch    *)
(* directory, no two checkpoints reference the same directory, and a       *)
(* checkpoint whose own directory was left alone reads back its booster    *)
(* whatever was done to the directories of the others.                     *)
(***************************************************************************)
C4_IndependentSaves ==
    /\ Distinct(scratch)
    /\ \A i, j \in 1 .. Len(ckpts) :
        (i # j /\ ckpts[i].kind = "dir" /\ ckpts[j].kind = "dir")
            => ckpts[i].path # ckpts[j].path
    /\ (/\ Read
        /\ last.cls = ckpts[last.ckpt].cls
        /\ ckpts[last.ckpt].path \notin tampered)
        => (last.returned /\ last.value = made[last.ckpt].booster)

C4_Witness ==
    /\ Read
    /\ Len(ckpts) = 2
    /\ ckpts[1].cls = XGBoostCheckpoint
    /\ ckpts[2].cls = XGBoostCheckpoint
    /\ made[1].booster = made[2].booster
    /\ last.ckpt = 2
    /\ last.cls = XGBoostCheckpoint
    /\ ckpts[1].path \in tampered
    /\ ~fs[ckpts[1].path].exists
    /\ last.returned
    /\ last.value = made[2].booster

(***************************************************************************)
(* C5.  Missing model file: get_model on a checkpoint whose directory      *)
(* holds no file under the adapter's model name (in particular no file at  *)
(* all) fails with a not-found error and does not return the empty         *)
(* booster.                                                                *)
(***************************************************************************)
C5_MissingFile ==
    (Read /\ ViewFiles(ckpts[last.ckpt])[ModelPath(last.cls)] = NoFile)
        => /\ last.status = "err"
           /\ last.error = NotFoundError
           /\ ~last.returned

C5_Witness ==
    /\ Read
    /\ ckpts[last.ckpt].kind = "dir"
    /\ fs[ckpts[last.ckpt].path].exists
    /\ ViewListing(ckpts[last.ckpt]) = {}
    /\ last.error = NotFoundError

(***************************************************************************)
(* C6.  No preprocessor: from_model(booster, preprocessor=None) returns a  *)
(* checkpoint whose contents are exactly one file, under the adapter's     *)
(* model name, with no preprocessor file and no preprocessor metadata, and *)
(* get_model on it returns the booster.                                    *)
(***************************************************************************)
C6_NoPreprocessor ==
    (Saved /\ made[last.ckpt].preprocessor = None)
        => LET checkpoint == ckpts[last.ckpt]
               r == get_model(checkpoint.cls, checkpoint, "none")
           IN  /\ ViewListing(checkpoint) = {ModelPath(checkpoint.cls)}
               /\ checkpoint.meta = NoFile
               /\ get_preprocessor(checkpoint, fs) = None
               /\ r.returned
               /\ r.value = made[last.ckpt].booster

C6_Witness ==
    /\ Saved
    /\ last.cls = XGBoostCheckpoint
    /\ made[last.ckpt].preprocessor = None
    /\ Listing(fs[last.tmpdir]) = {MODEL_FILENAME}

(***************************************************************************)
(* C7.  With a preprocessor: from_model(M, preprocessor=P) returns a       *)
(* checkpoint that restores P.  In the current format P is attached as     *)
(* metadata by set_preprocessor and the scratch directory holds the model  *)
(* file only; in the legacy format P is written into the scratch directory *)
(* before the checkpoint is built and is part of the checkpoint's data.    *)
(***************************************************************************)
C7_WithPreprocessor ==
    (Saved /\ made[last.ckpt].preprocessor # None)
        => LET checkpoint == ckpts[last.ckpt]
               P == made[last.ckpt].preprocessor
           IN  /\ get_preprocessor(checkpoint, fs) = P
               /\ last.cls = XGBoostCheckpoint
                    => /\ Called("set_preprocessor")
                       /\ checkpoint.meta = Pickle(P)
                       /\ Listing(fs[last.tmpdir]) = {MODEL_FILENAME}
               /\ last.cls = LegacyXGBoostCheckpoint
                    => /\ Before("save_preprocessor_to_dir", "from_directory")
                       /\ checkpoint.meta = NoFile
                       /\ <<PREPROCESSOR_FILE, Pickle(P)>> \in checkpoint.data

C7_Witness ==
    /\ Saved
    /\ last.cls = XGBoostCheckpoint
    /\ made[last.ckpt].preprocessor = 1
    /\ get_preprocessor(ckpts[last.ckpt], fs) = 1

(***************************************************************************)
(* C8.  All or nothing: a call in which a collaborator fails ends at that  *)
(* collaborator's call with that collaborator's error, returns nothing and *)
(* calls no collaborator twice; a call that returns has met no failure,    *)
(* and the checkpoint from_model returns reads back its booster.           *)
(***************************************************************************)
C8_AllOrNothing ==
    last.op # "none"
        => /\ last.status \in {"ok", "err"}
           /\ Distinct(last.calls)
           /\ Called(last.fail)
                => /\ last.status = "err"
                   /\ last.error = ErrorOf(last.fail)
                   /\ last.calls[Len(last.calls)] = last.fail
           /\ last.status = "err"
                => /\ ~last.returned
                   /\ last.error # NoError
                   /\ last.op = "from_model" => last.ckpt = 0
                   /\ last.op = "get_model" => last.value = EmptyBooster
           /\ last.status = "ok"
                => /\ last.returned
                   /\ last.error = NoError
                   /\ last.op = "from_model"
                        => LET checkpoint == ckpts[last.ckpt]
                               r == get_model(checkpoint.cls, checkpoint, "none")
                           IN  r.returned /\ r.value = made[last.ckpt].booster
                   /\ last.op = "get_model" => last.value \in Models

C8_Witness ==
    /\ last.op = "from_model"
    /\ last.cls = XGBoostCheckpoint
    /\ last.fail = "save_model"
    /\ last.status = "err"
    /\ last.error = CodecError
    /\ ckpts = <<>>

(***************************************************************************)
(* C9, as stated.  Every from_model that returns, of either adapter,       *)
(* leaves its scratch directory on the filesystem, and the checkpoint it   *)
(* returns references that directory.                                      *)
(***************************************************************************)
C9_ScratchLeft ==
    Saved
        => /\ fs[last.tmpdir].exists
           /\ ckpts[last.ckpt].kind = "dir"
           /\ ckpts[last.ckpt].path = last.tmpdir

(***************************************************************************)
(* C9, amended.  The current-format from_model leaves its scratch          *)
(* directory on the filesystem and returns a checkpoint that references    *)
(* it.  The legacy-format from_model has removed its scratch directory     *)
(* when it returns, and the checkpoint it returns references no directory: *)
(* it holds the files the directory had as a dictionary.                   *)
(***************************************************************************)
C9_ScratchLeftCurrentOnly ==
    Saved
        => LET checkpoint == ckpts[last.ckpt]
           IN  /\ last.cls = XGBoostCheckpoint
                    => /\ fs[last.tmpdir].exists
                       /\ checkpoint.kind = "dir"
                       /\ checkpoint.path = last.tmpdir
                       /\ fs[last.tmpdir].files[MODEL_FILENAME]
                            = Serialize(made[last.ckpt].booster)
               /\ last.cls = LegacyXGBoostCheckpoint
                    => /\ ~fs[last.tmpdir].exists
                       /\ checkpoint.kind = "dict"
                       /\ checkpoint.path = NoPath
                       /\ <<MODEL_KEY, Serialize(made[last.ckpt].booster)>>
                            \in checkpoint.data

C9_Witness ==
    /\ Saved
    /\ last.cls = LegacyXGBoostCheckpoint
    /\ last.tmpdir \in ScratchDirs
    /\ ~fs[last.tmpdir].exists
    /\ ckpts[last.ckpt].kind = "dict"

(***************************************************************************)
(* C10.  The legacy-format from_model has removed its scratch directory on *)
(* every exit, by return or by a failure; the checkpoint it returns holds  *)
(* the dictionary taken before the removal, so get_model on it returns the *)
(* booster although the scratch directory is gone.  A current-format       *)
(* from_model that fails after mkdtemp leaves its scratch directory behind *)
(* and no checkpoint references it.                                        *)
(***************************************************************************)
C10_ScratchOnExit ==
    /\ (last.op = "from_model" /\ last.cls = LegacyXGBoostCheckpoint
            /\ last.tmpdir # NoPath)
        => ~fs[last.tmpdir].exists
    /\ \A i \in 1 .. Len(ckpts) :
        ckpts[i].cls = LegacyXGBoostCheckpoint
            => LET r == get_model(LegacyXGBoostCheckpoint, ckpts[i], "none")
               IN  /\ ~fs[made[i].tmpdir].exists
                   /\ <<MODEL_KEY, Serialize(made[i].booster)>> \in ckpts[i].data
                   /\ r.returned
                   /\ r.value = made[i].booster
    /\ (last.op = "from_model" /\ last.cls = XGBoostCheckpoint
            /\ last.status = "err" /\ last.tmpdir # NoPath)
        => /\ fs[last.tmpdir].exists
           /\ \A i \in 1 .. Len(ckpts) : ckpts[i].path # last.tmpdir

C10_Witness ==
    /\ last.op = "from_model"
    /\ last.cls = LegacyXGBoostCheckpoint
    /\ last.fail = "to_dict"
    /\ last.status = "err"
    /\ last.tmpdir = 2
    /\ ~fs[2].exists
    /\ fs[1].exists
    /\ ckpts = <<>>

====
